---- MODULE Spec2Model ----
(***************************************************************************)
(* Podcast Audio Visualizer (src/app.js): the AudioAnalyzer, the           *)
(* WaveVisualizer, the ParticleVisualizer and the start/stop/frame-loop    *)
(* wiring of the DOMContentLoaded handler.                                 *)
(*                                                                         *)
(* Numbers are JavaScript doubles in the source.  They are modelled as     *)
(* exact rationals <<n, d>> in lowest terms with d > 0; a division by zero *)
(* yields the non-finite value NaN == <<0, 0>>, which every later          *)
(* operation propagates (JS NaN / Infinity).                               *)
(***************************************************************************)
EXTENDS Integers, Sequences, FiniteSets, TLC

VARIABLES
    stream,            \* AudioAnalyzer.stream: 0 (null) or a MediaStream id
    audioContext,      \* AudioAnalyzer.audioContext: 0 (null) or an AudioContext id
    analyzer,          \* AudioAnalyzer.analyzer: 0 (null) or the id of the context that made the node
    source,            \* AudioAnalyzer.source: 0 (null) or the id of the stream it wraps
    dataArray,         \* AudioAnalyzer.dataArray: <<>> (null) or a sequence of bytes
    binCount,          \* analyzer.frequencyBinCount of the current analyser node
    sampleRate,        \* audioContext.sampleRate of the current context
    isInitialized,     \* AudioAnalyzer.isInitialized
    bands,             \* AudioAnalyzer.bands
    liveStreams,       \* browser: MediaStreams whose tracks have not been stopped
    openContexts,      \* browser: AudioContexts that have not been closed
    pendingInits,      \* browser: getUserMedia promises not yet settled
    pendingFrames,     \* browser: requestAnimationFrame callbacks scheduled and not yet run or cancelled
    nextId,            \* browser: [stream, context |-> last id handed out]
    nextFrame,         \* browser: last requestAnimationFrame id handed out
    animationId,       \* `let animationId`: 0 (null) or a requestAnimationFrame id
    startBtnDisabled,  \* startBtn.disabled
    stopBtnDisabled,   \* stopBtn.disabled
    canvas,            \* [width, height] of the canvas
    waves,             \* WaveVisualizer.waves
    particles,         \* ParticleVisualizer.particles
    fillHue,           \* hue of ctx.fillStyle as last set by ParticleVisualizer.draw, NoHue before
    lastOp,            \* the operation that produced this state
    history,           \* [starts |-> start clicks so far, failed |-> init() calls that returned false]
    frames             \* number of frame bodies / draw calls executed so far

vars == <<stream, audioContext, analyzer, source, dataArray, binCount, sampleRate,
          isInitialized, bands, liveStreams, openContexts, pendingInits,
          pendingFrames, nextId, nextFrame, animationId, startBtnDisabled,
          stopBtnDisabled, canvas, waves, particles, fillHue, lastOp, history, frames>>

analyzerVars == <<stream, audioContext, analyzer, source, dataArray, binCount,
                  sampleRate, isInitialized, bands, liveStreams, openContexts, nextId>>
loopVars == <<pendingInits, pendingFrames, nextFrame, animationId, startBtnDisabled,
              stopBtnDisabled, history>>
renderVars == <<canvas, waves, particles, fillHue>>

(***************************************************************************)
(* Bounds of the model.                                                    *)
(***************************************************************************)
MaxBins == 3          \* largest frequencyBinCount explored
MaxDraws == 3         \* draw calls per behaviour of SpecWave
MaxParticleDraws == 2 \* draw calls per behaviour of SpecParticles
MaxSeed == 1          \* seeds of the random source are 0..MaxSeed
MaxStarts == 2        \* start clicks per behaviour of Spec
MaxFrames == 3        \* frame bodies per behaviour of Spec

(***************************************************************************)
(* Exact rational arithmetic standing for the doubles of the source.       *)
(***************************************************************************)
RECURSIVE GCD(_, _)
GCD(a, b) == IF b = 0 THEN a ELSE GCD(b, a % b)

Abs(n) == IF n < 0 THEN -n ELSE n

NaN == <<0, 0>>

IsFinite(r) == r[2] # 0

Norm(n, d) ==
    IF d = 0 THEN NaN
    ELSE LET s == IF d < 0 THEN -1 ELSE 1
             g == GCD(Abs(n), Abs(d))
         IN  <<(s * n) \div g, (s * d) \div g>>

R(n) == <<n, 1>>

RAdd(a, b) == IF IsFinite(a) /\ IsFinite(b) THEN Norm(a[1] * b[2] + b[1] * a[2], a[2] * b[2]) ELSE NaN

RMul(a, b) == IF IsFinite(a) /\ IsFinite(b) THEN Norm(a[1] * b[1], a[2] * b[2]) ELSE NaN

RDiv(a, b) == IF IsFinite(a) /\ IsFinite(b) THEN Norm(a[1] * b[2], a[2] * b[1]) ELSE NaN

\* comparisons with a non-finite operand are false, as with NaN
RLt(a, b) == IsFinite(a) /\ IsFinite(b) /\ a[1] * b[2] < b[1] * a[2]

RLe(a, b) == IsFinite(a) /\ IsFinite(b) /\ a[1] * b[2] <= b[1] * a[2]

RGt(a, b) == RLt(b, a)

RGe(a, b) == RLe(b, a)

\* the % operator on a non-negative double and a positive integer modulus
RModInt(a, m) == IF IsFinite(a) THEN Norm(a[1] % (m * a[2]), a[2]) ELSE NaN

(***************************************************************************)
(* AudioAnalyzer                                                           *)
(***************************************************************************)
ZeroBands == [bass |-> R(0), mid |-> R(0), treble |-> R(0), average |-> R(0),
              brightness |-> R(0)]

\* byte values fed to the analyser: the extremes and both sides of the gate
ByteSamples == {0, 10, 11, 255}

\* sample rates of the audio context; with the bin counts explored they put
\* bins in each of the three bands, below 80 Hz and above 8000 Hz
SampleRates == {600, 1500, 17400, 44100, 48000}

CaptureFrames(n) == [1..n -> ByteSamples]

NoiseGateMutant(value) == value >= 10

NoiseGate(value) == value > 10

\* freq = i * binWidth, binWidth = (sampleRate / 2) / binCount
BinFreq(i, bc, rate) == RMul(R(i), RDiv(RDiv(R(rate), R(2)), R(bc)))

\* the if / else-if chain that assigns a gated bin to a band
BandOf(freq) ==
    IF RGe(freq, R(80)) /\ RLt(freq, R(300)) THEN "bass"
    ELSE IF RGe(freq, R(300)) /\ RLt(freq, R(3000)) THEN "mid"
    ELSE IF RGe(freq, R(3000)) /\ RLt(freq, R(8000)) THEN "treble"
    ELSE "none"

\* the sums and counts accumulated by the for loop, bins i..bc-1
RECURSIVE Accumulate(_, _, _, _, _)
Accumulate(data, i, bc, rate, acc) ==
    IF i >= bc THEN acc
    ELSE LET value == data[i + 1]
             band == BandOf(BinFreq(i, bc, rate))
             gated == NoiseGate(value)
             a1 == IF gated
                   THEN [acc EXCEPT !.totalSum = @ + value,
                                    !.weightedSum = @ + i * value]
                   ELSE acc
             a2 == IF gated /\ band = "bass"
                   THEN [a1 EXCEPT !.bassSum = @ + value, !.bassBins = @ + 1]
                   ELSE IF gated /\ band = "mid"
                   THEN [a1 EXCEPT !.midSum = @ + value, !.midBins = @ + 1]
                   ELSE IF gated /\ band = "treble"
                   THEN [a1 EXCEPT !.trebleSum = @ + value, !.trebleBins = @ + 1]
                   ELSE a1
         IN  Accumulate(data, i + 1, bc, rate, a2)

ZeroSums == [totalSum |-> 0, weightedSum |-> 0, bassSum |-> 0, midSum |-> 0,
             trebleSum |-> 0, bassBins |-> 0, midBins |-> 0, trebleBins |-> 0]

\* bins > 0 ? (sum / bins / 255) : 0
BandEnergy(sum, bins) == IF bins > 0 THEN RDiv(RDiv(R(sum), R(bins)), R(255)) ELSE R(0)

\* totalSum / binCount / 255
AverageEnergy(totalSum, bc) == RDiv(RDiv(R(totalSum), R(bc)), R(255))

BrightnessMutant(weightedSum, totalSum, bc) ==
    IF totalSum > 0 THEN RDiv(R(weightedSum), R(totalSum)) ELSE R(0)

\* totalSum > 0 ? (weightedSum / totalSum / binCount) : 0
Brightness(weightedSum, totalSum, bc) ==
    IF totalSum > 0 THEN RDiv(RDiv(R(weightedSum), R(totalSum)), R(bc)) ELSE R(0)

\* the bands computed by update() from the bytes just read
ComputeBands(data, bc, rate) ==
    LET s == Accumulate(data, 0, bc, rate, ZeroSums)
    IN  [bass |-> BandEnergy(s.bassSum, s.bassBins),
         mid |-> BandEnergy(s.midSum, s.midBins),
         treble |-> BandEnergy(s.trebleSum, s.trebleBins),
         average |-> AverageEnergy(s.totalSum, bc),
         brightness |-> Brightness(s.weightedSum, s.totalSum, bc)]

\* AudioAnalyzer.update() on an analyzer whose isInitialized, frequencyBinCount
\* and sampleRate are init, bc and rate; data is what getByteFrequencyData writes
UpdatedBands(init, bc, rate, data) ==
    IF ~init THEN bands ELSE ComputeBands(data, bc, rate)

AnalyzerUpdate(init, bc, rate, data) ==
    /\ dataArray' = IF ~init THEN dataArray ELSE data
    /\ bands' = UpdatedBands(init, bc, rate, data)

\* the points at which init() can throw, and "ok"
InitOutcomes == {"getUserMedia", "AudioContext", "createAnalyser",
                 "createMediaStreamSource", "ok"}

\* AudioAnalyzer.init() from the settling of getUserMedia to its return; the
\* new Uint8Array it stores in dataArray is NewDataArray(bc)
NewDataArray(bc) == [i \in 1..bc |-> 0]

AnalyzerInit(outcome, bc, rate) ==
    LET s == nextId.stream + 1
        c == nextId.context + 1
        gotStream == outcome # "getUserMedia"
        gotContext == outcome \in {"createAnalyser", "createMediaStreamSource", "ok"}
        gotAnalyzer == outcome \in {"createMediaStreamSource", "ok"}
    IN  /\ nextId' = [nextId EXCEPT !.stream = IF gotStream THEN s ELSE @,
                                    !.context = IF gotContext THEN c ELSE @]
        /\ stream' = IF gotStream THEN s ELSE stream
        /\ liveStreams' = IF gotStream THEN liveStreams \cup {s} ELSE liveStreams
        /\ audioContext' = IF gotContext THEN c ELSE audioContext
        /\ openContexts' = IF gotContext THEN openContexts \cup {c} ELSE openContexts
        /\ sampleRate' = IF gotContext THEN rate ELSE sampleRate
        /\ analyzer' = IF gotAnalyzer THEN c ELSE analyzer
        /\ binCount' = IF gotAnalyzer THEN bc ELSE binCount
        /\ source' = IF outcome = "ok" THEN s ELSE source
        /\ isInitialized' = IF outcome = "ok" THEN TRUE ELSE isInitialized

\* AudioAnalyzer.stop()
AnalyzerStop ==
    /\ liveStreams' = IF stream # 0 THEN liveStreams \ {stream} ELSE liveStreams
    /\ openContexts' = IF audioContext # 0 THEN openContexts \ {audioContext} ELSE openContexts
    /\ isInitialized' = FALSE
    /\ UNCHANGED <<stream, audioContext, analyzer, source, dataArray, binCount,
                   sampleRate, bands, nextId>>

(***************************************************************************)
(* WaveVisualizer                                                          *)
(***************************************************************************)
\* the waves array built by the constructor (color is rendering only)
InitialWaves ==
    << [amplitude |-> 50, frequency |-> <<1, 100>>, speed |-> <<1, 50>>, offset |-> R(0)],
       [amplitude |-> 30, frequency |-> <<1, 50>>, speed |-> <<3, 100>>, offset |-> R(2)],
       [amplitude |-> 20, frequency |-> <<3, 100>>, speed |-> <<1, 100>>, offset |-> R(4)] >>

PhaseAdvanceMutant(cfg, bandValue) == RMul(cfg.speed, bandValue)

\* cfg.speed * (1 + bandValue)
PhaseAdvance(cfg, bandValue) == RMul(cfg.speed, RAdd(R(1), bandValue))

\* drawWave(cfg, bandValue, ...): the stroke is rendering only; the state
\* change is cfg.offset += cfg.speed * (1 + bandValue)
DrawWave(cfg, bandValue) ==
    [cfg EXCEPT !.offset = RAdd(@, PhaseAdvance(cfg, bandValue))]

\* WaveVisualizer.draw(bands, sensitivity, useTrails): clearing or fading the
\* canvas changes pixels only
WaveDraw(b) ==
    waves' = << DrawWave(waves[1], b.bass), DrawWave(waves[2], b.mid),
                DrawWave(waves[3], b.treble) >>

(***************************************************************************)
(* ParticleVisualizer                                                      *)
(***************************************************************************)
ParticleCount == 200

\* Math.random(): a generator of period RandModulus started from an unknown
\* seed; draw k of a run started at seed is RandAt(seed, k) / RandModulus,
\* a value in [0, 1)
RandModulus == 16

RECURSIVE Lcg(_, _)
Lcg(s, k) == IF k = 0 THEN s ELSE Lcg((5 * s + 3) % RandModulus, k - 1)

RandAt(seed, k) == <<Lcg(seed % RandModulus, k % RandModulus), RandModulus>>

Seeds == 0..MaxSeed

CanvasSizes == {[width |-> 2, height |-> 1], [width |-> 1, height |-> 3]}

\* the object pushed by the i-th iteration (i from 0) of initParticles
NewParticle(size, seed, i) ==
    LET r(k) == RandAt(seed, 6 * i + k)
        half == <<1, 2>>
        speed(k) == RMul(RAdd(r(k), <<-1, 2>>), <<3, 2>>)
    IN  [x |-> RMul(r(0), R(size.width)),
         y |-> RMul(r(1), R(size.height)),
         size |-> RAdd(RMul(r(2), R(2)), half),
         speedX |-> speed(3),
         speedY |-> speed(4),
         baseAlpha |-> RAdd(RMul(r(5), half), <<1, 5>>)]

\* initParticles(): particles = [] and ParticleCount pushes
InitParticles(size, seed) == [i \in 1..ParticleCount |-> NewParticle(size, seed, i - 1)]

\* the particle sets initParticles can produce, tabulated once
ParticleTable == [size \in CanvasSizes, seed \in Seeds |-> InitParticles(size, seed)]

WrapCoordMutant(c, dim) == IF RLt(c, R(0)) THEN R(dim) ELSE c

\* if (c < 0) c = dim; if (c > dim) c = 0;
WrapCoord(c, dim) ==
    LET c1 == IF RLt(c, R(0)) THEN R(dim) ELSE c
    IN  IF RGt(c1, R(dim)) THEN R(0) ELSE c1

\* bands.average * sensitivity * 6
Intensity(b, sensitivity) == RMul(RMul(b.average, sensitivity), R(6))

MoveParticleMutant(p, intensity, size) ==
    LET k == RAdd(R(1), intensity)
    IN  [p EXCEPT !.speedX = RMul(p.speedX, k), !.speedY = RMul(p.speedY, k),
                  !.x = WrapCoord(RAdd(p.x, RMul(p.speedX, k)), size.width),
                  !.y = WrapCoord(RAdd(p.y, RMul(p.speedY, k)), size.height)]

\* the position update of one particle in draw()
MoveParticle(p, intensity, size) ==
    LET k == RAdd(R(1), intensity)
    IN  [p EXCEPT !.x = WrapCoord(RAdd(p.x, RMul(p.speedX, k)), size.width),
                  !.y = WrapCoord(RAdd(p.y, RMul(p.speedY, k)), size.height)]

HueBaseMutant(b) ==
    IF RGe(b.bass, b.mid) /\ RGe(b.bass, b.treble) THEN 210
    ELSE IF RGe(b.mid, b.treble) THEN 160
    ELSE 300

\* the if / else-if / else that picks the hue family
HueBase(b) ==
    IF RGt(b.bass, b.mid) /\ RGt(b.bass, b.treble) THEN 210
    ELSE IF RGt(b.mid, b.treble) THEN 160
    ELSE 300

\* hue = (base + bands.brightness * 150) % 360
Hue(b) == RModInt(RAdd(R(HueBase(b)), RMul(b.brightness, R(150))), 360)

NoHue == <<-1, 1>>

\* ParticleVisualizer.draw(bands, sensitivity); fillStyle is set once per
\* particle, always to the same hue
ParticleDraw(b, sensitivity) ==
    /\ particles' = [i \in DOMAIN particles |->
                        MoveParticle(particles[i], Intensity(b, sensitivity), canvas)]
    /\ fillHue' = IF Len(particles) > 0 THEN Hue(b) ELSE fillHue

(***************************************************************************)
(* Inputs                                                                  *)
(***************************************************************************)
Levels == {R(0), <<1, 2>>, R(1)}

\* band records handed to the renderers
BandInputs == [bass : Levels, mid : Levels, treble : Levels,
               average : {R(0), R(1)}, brightness : {R(0), <<1, 2>>}]

\* sensitivitySlider.value
Sensitivities == {<<1, 2>>, R(3)}

\* modeSelect.value; anything but "wave" and "particles" is the combined mode
Modes == {"wave", "particles", "combined"}

(***************************************************************************)
(* States after construction                                               *)
(***************************************************************************)
\* new AudioAnalyzer(), but for its bands
AnalyzerFieldsNull ==
    /\ stream = 0 /\ audioContext = 0 /\ analyzer = 0 /\ source = 0
    /\ dataArray = <<>> /\ binCount = 0 /\ sampleRate = 0
    /\ isInitialized = FALSE
    /\ liveStreams = {} /\ openContexts = {}
    /\ nextId = [stream |-> 0, context |-> 0]

\* new AudioAnalyzer()
AnalyzerConstructed == AnalyzerFieldsNull /\ bands = ZeroBands

\* `let animationId = null` and no click yet.  The page markup is not part of
\* the source: the buttons start as the stop handler leaves them, start
\* enabled and stop disabled.
LoopIdle ==
    /\ pendingInits = 0 /\ pendingFrames = {} /\ nextFrame = 0 /\ animationId = 0
    /\ startBtnDisabled = FALSE /\ stopBtnDisabled = TRUE
    /\ history = [starts |-> 0, failed |-> 0]

\* no renderer constructed
NoRenderer ==
    /\ canvas = [width |-> 0, height |-> 0]
    /\ waves = <<>> /\ particles = <<>> /\ fillHue = NoHue

(***************************************************************************)
(* SpecAnalyzer: one AudioAnalyzer driven through init, update and stop    *)
(***************************************************************************)
InitAnalyzer ==
    /\ AnalyzerConstructed /\ LoopIdle /\ NoRenderer
    /\ lastOp = "new" /\ frames = 0

\* init() succeeding on a fresh analyzer
AnInit(bc, rate) ==
    /\ audioContext = 0
    /\ AnalyzerInit("ok", bc, rate)
    /\ dataArray' = NewDataArray(bc)
    /\ lastOp' = "init"
    /\ UNCHANGED <<bands, loopVars, renderVars, frames>>

AnUpdate(data) ==
    /\ AnalyzerUpdate(isInitialized, binCount, sampleRate, data)
    /\ lastOp' = "update"
    /\ UNCHANGED <<stream, audioContext, analyzer, source, binCount, sampleRate,
                   isInitialized, liveStreams, openContexts, nextId,
                   loopVars, renderVars, frames>>

AnStop ==
    /\ AnalyzerStop
    /\ lastOp' = "stop"
    /\ UNCHANGED <<loopVars, renderVars, frames>>

NextAnalyzer ==
    \/ \E bc \in 1..MaxBins, rate \in SampleRates : AnInit(bc, rate)
    \/ \E data \in (IF isInitialized THEN CaptureFrames(binCount) ELSE {<<>>}) : AnUpdate(data)
    \/ AnStop

SpecAnalyzer == InitAnalyzer /\ [][NextAnalyzer]_vars

(***************************************************************************)
(* SpecWave: one WaveVisualizer drawn with a constant band record          *)
(***************************************************************************)
InitWave ==
    /\ AnalyzerFieldsNull /\ LoopIdle
    /\ bands \in BandInputs
    /\ canvas \in CanvasSizes
    /\ waves = InitialWaves
    /\ particles = <<>> /\ fillHue = NoHue
    /\ lastOp = "new" /\ frames = 0

\* waveViz.draw(bands, sensitivity, useTrails)
WaveDrawStep(sensitivity, useTrails) ==
    /\ frames < MaxDraws
    /\ WaveDraw(bands)
    /\ frames' = frames + 1
    /\ lastOp' = "draw"
    /\ UNCHANGED <<analyzerVars, loopVars, canvas, particles, fillHue>>

NextWave == \E sensitivity \in Sensitivities, useTrails \in BOOLEAN :
                WaveDrawStep(sensitivity, useTrails)

SpecWave == InitWave /\ [][NextWave]_vars

(***************************************************************************)
(* SpecParticles: one ParticleVisualizer drawn with a constant band record *)
(* on a canvas that may be resized                                         *)
(***************************************************************************)
InitParticleField ==
    /\ AnalyzerFieldsNull /\ LoopIdle
    /\ bands \in BandInputs
    /\ canvas \in CanvasSizes
    /\ \E seed \in Seeds : particles = ParticleTable[canvas, seed]
    /\ waves = <<>> /\ fillHue = NoHue
    /\ lastOp = "new" /\ frames = 0

\* particleViz.draw(bands, sensitivity)
ParticleDrawStep(sensitivity) ==
    /\ frames < MaxParticleDraws
    /\ ParticleDraw(bands, sensitivity)
    /\ frames' = frames + 1
    /\ lastOp' = "draw"
    /\ UNCHANGED <<analyzerVars, loopVars, canvas, waves>>

\* resize(): the canvas takes the container's size and initParticles() runs
Resize(size, seed) ==
    /\ canvas' = size
    /\ particles' = ParticleTable[size, seed]
    /\ lastOp' = "resize"
    /\ UNCHANGED <<analyzerVars, loopVars, waves, fillHue, frames>>

NextParticles ==
    \/ \E sensitivity \in Sensitivities : ParticleDrawStep(sensitivity)
    \/ \E size \in CanvasSizes, seed \in Seeds : Resize(size, seed)

SpecParticles == InitParticleField /\ [][NextParticles]_vars

(***************************************************************************)
(* Spec: the application wired by the DOMContentLoaded handler             *)
(***************************************************************************)
\* the analyser the browser hands out in a session: frequencyBinCount and
\* sampleRate, scaled down so that bins fall below 80 Hz, in the bass band
\* and in the mid band
SessionDevices == {[binCount |-> MaxBins, sampleRate |-> 1500]}

\* what getByteFrequencyData can write in a session: silence and full scale
SessionFrames(n) == {[i \in 1..n |-> v] : v \in {0, 255}}

SessionSensitivities == {R(1)}

\* the state when the DOMContentLoaded handler returns: the three objects
\* are constructed and resize() has run once
Init ==
    /\ AnalyzerConstructed /\ LoopIdle
    /\ canvas \in CanvasSizes
    /\ \E seed \in Seeds : particles = ParticleTable[canvas, seed]
    /\ waves = InitialWaves
    /\ fillHue = NoHue
    /\ lastOp = "load" /\ frames = 0

\* loop(): analyzer.update(), the draw calls of the mode, then
\* animationId = requestAnimationFrame(loop).  init, bc and rate are the
\* analyzer's isInitialized, frequencyBinCount and sampleRate when it runs,
\* pending the callbacks still scheduled when it runs.
LoopBody(init, bc, rate, data, mode, sensitivity, pending) ==
    LET b == UpdatedBands(init, bc, rate, data)
    IN  /\ AnalyzerUpdate(init, bc, rate, data)
        /\ IF mode \in {"wave", "combined"} THEN WaveDraw(b) ELSE UNCHANGED waves
        /\ IF mode \in {"particles", "combined"}
           THEN ParticleDraw(b, sensitivity)
           ELSE UNCHANGED <<particles, fillHue>>
        /\ nextFrame' = nextFrame + 1
        /\ animationId' = nextFrame + 1
        /\ pendingFrames' = pending \cup {nextFrame + 1}
        /\ frames' = frames + 1
        /\ UNCHANGED canvas

\* startBtn click: the handler calls analyzer.init(), which calls
\* getUserMedia and suspends until that promise settles
StartClick ==
    /\ ~startBtnDisabled
    /\ history.starts < MaxStarts
    /\ pendingInits' = pendingInits + 1
    /\ history' = [history EXCEPT !.starts = @ + 1]
    /\ lastOp' = "start"
    /\ UNCHANGED <<analyzerVars, pendingFrames, nextFrame, animationId,
                   startBtnDisabled, stopBtnDisabled, renderVars, frames>>

\* a getUserMedia promise settles and init() runs to its return with no
\* further suspension: it fails
InitFails(outcome, dev) ==
    /\ pendingInits > 0
    /\ outcome # "ok"
    /\ pendingInits' = pendingInits - 1
    /\ AnalyzerInit(outcome, dev.binCount, dev.sampleRate)
    /\ history' = [history EXCEPT !.failed = @ + 1]
    /\ lastOp' = "initFail"
    /\ UNCHANGED <<dataArray, bands, pendingFrames, nextFrame, animationId,
                   startBtnDisabled, stopBtnDisabled, renderVars, frames>>

\* a getUserMedia promise settles, init() returns true and the click handler
\* resumes: buttons, then startLoop(), which runs loop() once at once
InitSucceeds(dev, data, mode, sensitivity) ==
    /\ pendingInits > 0
    /\ frames < MaxFrames
    /\ pendingInits' = pendingInits - 1
    /\ AnalyzerInit("ok", dev.binCount, dev.sampleRate)
    /\ startBtnDisabled' = TRUE
    /\ stopBtnDisabled' = FALSE
    /\ LoopBody(TRUE, dev.binCount, dev.sampleRate, data, mode, sensitivity, pendingFrames)
    /\ lastOp' = "initOk"
    /\ UNCHANGED history

\* the browser runs the scheduled callback id
FrameTick(id, data, mode, sensitivity) ==
    /\ id \in pendingFrames
    /\ frames < MaxFrames
    /\ LoopBody(isInitialized, binCount, sampleRate, data, mode, sensitivity,
                pendingFrames \ {id})
    /\ lastOp' = "tick"
    /\ UNCHANGED <<stream, audioContext, analyzer, source, binCount, sampleRate,
                   isInitialized, liveStreams, openContexts, nextId, pendingInits,
                   startBtnDisabled, stopBtnDisabled, history>>

\* stopBtn click: analyzer.stop(), cancelAnimationFrame(animationId), buttons
StopClick ==
    /\ ~stopBtnDisabled
    /\ AnalyzerStop
    /\ pendingFrames' = pendingFrames \ {animationId}
    /\ startBtnDisabled' = FALSE
    /\ stopBtnDisabled' = TRUE
    /\ lastOp' = "stop"
    /\ UNCHANGED <<pendingInits, nextFrame, animationId, history, renderVars, frames>>

Next ==
    \/ StartClick
    \/ \E outcome \in InitOutcomes, dev \in SessionDevices : InitFails(outcome, dev)
    \/ \E dev \in SessionDevices :
          \E data \in SessionFrames(dev.binCount), mode \in Modes,
             sensitivity \in SessionSensitivities :
               InitSucceeds(dev, data, mode, sensitivity)
    \/ \E id \in pendingFrames,
          data \in (IF isInitialized THEN SessionFrames(binCount) ELSE {<<>>}),
          mode \in Modes, sensitivity \in SessionSensitivities :
            FrameTick(id, data, mode, sensitivity)
    \/ StopClick
    \/ \E size \in CanvasSizes, seed \in Seeds : Resize(size, seed)

Spec == Init /\ [][Next]_vars

(***************************************************************************)
(* Properties                                                              *)
(***************************************************************************)
BandNames == {"bass", "mid", "treble", "average", "brightness"}

InUnit(r) == IsFinite(r) /\ RLe(R(0), r) /\ RLe(r, R(1))

\* C1: in every state of an analyzer (before the first update and after any
\* update on any byte array, bin count and sample rate) each of bass, mid,
\* treble, average and brightness is a defined number in [0, 1].
BandsInUnitRange == \A f \in BandNames : InUnit(bands[f])

\* an update has produced a full-scale band and a centroid above 0
BandsInUnitRangeWitness ==
    /\ lastOp = "update" /\ isInitialized
    /\ \E f \in {"bass", "mid", "treble"} : bands[f] = R(1)
    /\ RGt(bands.brightness, R(0))
    /\ RLt(bands.average, R(1))

\* C8: after an update that read an array whose every bin is <= 10, all five
\* bands are exactly 0 (a defined number, so no division by zero happened).
GatedArrayGivesZero ==
    (lastOp = "update" /\ isInitialized /\ \A i \in DOMAIN dataArray : dataArray[i] <= 10)
        => bands = ZeroBands

\* an update has read an array of several bins, one of them exactly at the gate
GatedArrayGivesZeroWitness ==
    /\ lastOp = "update" /\ isInitialized
    /\ Len(dataArray) >= 2
    /\ \A i \in DOMAIN dataArray : dataArray[i] <= 10
    /\ \E i \in DOMAIN dataArray : dataArray[i] = 10
    /\ bands = ZeroBands

\* the band that drives wave layer i
DrivingBand(i) == IF i = 1 THEN bands.bass ELSE IF i = 2 THEN bands.mid ELSE bands.treble

\* C7: with each layer's band value constant at b, after N draw calls the
\* layer's offset is offset0 + N * speed * (1 + b).
OffsetAfterNDraws ==
    \A i \in 1..3 :
        waves[i].offset =
            RAdd(InitialWaves[i].offset,
                 RMul(R(frames), RMul(InitialWaves[i].speed, RAdd(R(1), DrivingBand(i)))))

\* two draws at bass = 0.5 have taken layer 0 from 0 to 2 * 0.02 * 1.5 = 0.06
OffsetAfterNDrawsWitness ==
    /\ lastOp = "draw" /\ frames = 2
    /\ bands.bass = <<1, 2>>
    /\ waves[1].offset = <<3, 50>>

\* C9: there are always exactly 200 particles, and a draw call leaves every
\* particle's stored speedX and speedY as they were.
PopulationConserved ==
    /\ [](Len(particles) = ParticleCount)
    /\ [][lastOp' = "draw" =>
            /\ DOMAIN particles' = DOMAIN particles
            /\ \A i \in DOMAIN particles :
                  /\ particles'[i].speedX = particles[i].speedX
                  /\ particles'[i].speedY = particles[i].speedY]_vars

\* a second draw at non-zero intensity, after a resize, has moved a particle
\* that has a non-zero speed
PopulationConservedWitness ==
    /\ lastOp = "draw" /\ frames = 2
    /\ RGt(bands.average, R(0))
    /\ Len(particles) = ParticleCount
    /\ \E size \in CanvasSizes, seed \in Seeds :
          /\ \A i \in DOMAIN particles :
                particles[i].speedX = ParticleTable[size, seed][i].speedX
          /\ \E i \in DOMAIN particles :
                /\ particles[i].speedX # R(0)
                /\ particles[i].x # ParticleTable[size, seed][i].x

\* C4 as claimed: every particle has 0 <= x < width and 0 <= y < height.
ParticlesStrictlyInside ==
    \A i \in DOMAIN particles :
        /\ RLe(R(0), particles[i].x) /\ RLt(particles[i].x, R(canvas.width))
        /\ RLe(R(0), particles[i].y) /\ RLt(particles[i].y, R(canvas.height))

\* C4 as amended: every particle has 0 <= x <= width and 0 <= y <= height
\* (a particle that leaves on the low side is put exactly on the far edge).
ParticlesWithinClosedBounds ==
    \A i \in DOMAIN particles :
        /\ RLe(R(0), particles[i].x) /\ RLe(particles[i].x, R(canvas.width))
        /\ RLe(R(0), particles[i].y) /\ RLe(particles[i].y, R(canvas.height))

\* a draw has wrapped one particle from below 0 to x = width and another from
\* above width to x = 0
ParticlesWithinClosedBoundsWitness ==
    /\ lastOp = "draw"
    /\ \E i \in DOMAIN particles :
          particles[i].x = R(canvas.width) /\ RLt(particles[i].speedX, R(0))
    /\ \E i \in DOMAIN particles :
          particles[i].x = R(0) /\ RGt(particles[i].speedX, R(0))

\* the hue that draw() sets for base hue `base` and the current brightness
HueOfFamily(base) == RModInt(RAdd(R(base), RMul(bands.brightness, R(150))), 360)

\* C5 as claimed: after a draw the hue is of the bass family (210) whenever
\* bass >= mid and bass >= treble, else of the mid family (160) whenever
\* mid >= treble, else of the treble family (300).
HueTiesGoToEarlierBand ==
    lastOp = "draw" =>
        fillHue = HueOfFamily(
            IF RGe(bands.bass, bands.mid) /\ RGe(bands.bass, bands.treble) THEN 210
            ELSE IF RGe(bands.mid, bands.treble) THEN 160 ELSE 300)

\* C5 as amended: after a draw the hue is of the bass family exactly when bass
\* is strictly above both mid and treble; of the treble family exactly when
\* treble >= mid and bass is not strictly above both; of the mid family in
\* the remaining case, mid > treble with bass not strictly above both.
HueTiesGoToLaterBand ==
    LET bassWins == RGt(bands.bass, bands.mid) /\ RGt(bands.bass, bands.treble)
    IN  lastOp = "draw" =>
            /\ (fillHue = HueOfFamily(210)) <=> bassWins
            /\ (fillHue = HueOfFamily(300)) <=> (~bassWins /\ RGe(bands.treble, bands.mid))
            /\ (fillHue = HueOfFamily(160)) <=> (~bassWins /\ RGt(bands.mid, bands.treble))

\* a draw with bass = mid above treble has picked the mid family
HueTiesGoToLaterBandWitness ==
    /\ lastOp = "draw"
    /\ bands.bass = bands.mid /\ RGt(bands.mid, bands.treble)
    /\ fillHue = HueOfFamily(160)

\* C2 as claimed: when the only start so far has failed, no stream is live,
\* no context is open, isInitialized is false and no frame is scheduled.
FailedStartLeavesNothing ==
    (lastOp = "initFail" /\ history.starts = 1) =>
        /\ liveStreams = {} /\ openContexts = {}
        /\ ~isInitialized /\ pendingFrames = {}

\* C3 as claimed: when the stop handler has run (and no init() has failed
\* before it), no frame callback is scheduled and no stream is live.
StopCancelsAndReleases ==
    (lastOp = "stop" /\ history.failed = 0) => (pendingFrames = {} /\ liveStreams = {})

\* C6 as claimed: a frame body that runs update() on an analyzer that is not
\* initialized sees all five bands at 0.
UpdateWhenClosedGivesZero ==
    (lastOp = "tick" /\ ~isInitialized) => bands = ZeroBands

\* C10 as claimed: at most one frame callback is scheduled, and animationId
\* names it.
SingleFrameLoop ==
    /\ Cardinality(pendingFrames) <= 1
    /\ pendingFrames # {} => pendingFrames = {animationId}

====
